---- MODULE Spec2Model ----
(***************************************************************************)
(* LocalRepository (src/src/persistence/localRepository.ts): the wallet's  *)
(* storage interfaces implemented over window.localStorage, one flat       *)
(* string-keyed store shared by the address, key pair, UTXO and contract   *)
(* buckets and by the location entry.                                      *)
(*                                                                         *)
(* JavaScript strings are TLA+ strings.  A JavaScript object is a record   *)
(* that lists its own properties in property order (field "fields") next   *)
(* to the property values; JSON text is built and parsed as text.          *)
(*                                                                         *)
(* Spec: every facade call is awaited before the next one is made, so a    *)
(* call is one action.  The wallet stores addresses, public keys,          *)
(* outpoints and contract ids: each collection is given its own key        *)
(* strings, none of them a reserved key.  Reads and deletes are made for   *)
(* every key string, the keys of the other collections and the reserved    *)
(* keys included.                                                          *)
(*                                                                         *)
(* SpecAnyKey: as Spec for the addresses and the location, an address      *)
(* being any string.  SpecOutpoints: as Spec for the UTXOs, with           *)
(* transaction ids of different lengths.  SpecJobs: calls are made without *)
(* awaiting the earlier ones; a call runs up to its first await and what   *)
(* follows runs later as jobs of the promise job queue.                    *)
(***************************************************************************)
EXTENDS Integers, Sequences, FiniteSets, TLC

VARIABLES
  db,   \* this._db: the entries of window.localStorage, key -> string
  ret,  \* the last facade call: operation, arguments, settled result, and
        \* the store as it was when the call was made
  queue, \* the promise job queue: the continuations that are ready to run
  calls  \* the facade calls whose promises the caller holds

vars == <<db, ret, queue, calls>>

----------------------------------------------------------------------------
(* Reserved keys, localRepository.ts lines 14-18 *)

addressBucketTag == "addressBucket"
utxoBucketTag == "utxoBucket"
contractBucketTag == "contractBucket"
keyPairBucketTag == "keyPairBucket"
locationKey == "locationKey"

BucketTags ==
  {addressBucketTag, utxoBucketTag, contractBucketTag, keyPairBucketTag}

----------------------------------------------------------------------------
(* Bounds and input sets *)

MaxVout == 0

\* capacity of the store, in entries: a call that would exceed it is not made
MaxEntries == 5

\* the key strings the wallet stores under: addresses, public keys,
\* transaction ids
Addresses == {"x", "y"}
PublicKeys == {"k"}
PrivKeys == {"p", "q"}
Locations == {"here"}
Txids == {"a"}
Vouts == 0..MaxVout
Amounts == {7}

\* ContractState of dlc-lib, by name
Offered == "Offered"
Accepted == "Accepted"
Signed == "Signed"
ContractStates == {Offered, Accepted, Signed}

----------------------------------------------------------------------------
(* JavaScript values *)

\* a value with no own properties set; the starting point of every object
Blank ==
  [kind |-> "object", fields |-> <<>>, txid |-> "", vout |-> 0, amount |-> 0,
   reserved |-> FALSE, state |-> "", temporaryContractId |-> "", id |-> ""]

null == [Blank EXCEPT !.kind = "null"]

Range(seq) == {seq[i] : i \in DOMAIN seq}

HasField(o, f) == o.kind = "object" /\ f \in Range(o.fields)

\* { txid, vout, amount, reserved }
MkUtxo(txid, vout, amount, reserved) ==
  [Blank EXCEPT !.fields = <<"txid", "vout", "amount", "reserved">>,
                !.txid = txid, !.vout = vout, !.amount = amount,
                !.reserved = reserved]

\* an offered contract: { state, temporaryContractId }
MkOffered(t) ==
  [Blank EXCEPT !.fields = <<"state", "temporaryContractId">>,
                !.state = Offered, !.temporaryContractId = t]

\* an accepted or later contract: { state, temporaryContractId, id }
MkFinal(s, t, f) ==
  [Blank EXCEPT !.fields = <<"state", "temporaryContractId", "id">>,
                !.state = s, !.temporaryContractId = t, !.id = f]

UtxoInputs ==
  {MkUtxo(t, v, a, r) : t \in Txids, v \in Vouts, a \in Amounts, r \in BOOLEAN}

\* temporary and final contract ids; the final id of a contract differs
\* from its temporary id
TemporaryIds == {"t"}
FinalIds == {"f"}

ContractInputs ==
  {MkOffered(t) : t \in TemporaryIds}
    \cup {MkFinal(s, t, f) :
            s \in {Accepted, Signed}, t \in TemporaryIds, f \in FinalIds}

\* getId of dlc-lib: the final id once the contract has one, the temporary
\* id before
getId(contract) ==
  IF HasField(contract, "id") THEN contract.id
  ELSE contract.temporaryContractId

\* { ...o, reserved: false }: an own property keeps its place, a new one is
\* added last
SpreadUnreserved(o) ==
  IF o.kind = "object"
  THEN [o EXCEPT !.fields = IF "reserved" \in Range(@) THEN @
                            ELSE Append(@, "reserved"),
                 !.reserved = FALSE]
  ELSE [Blank EXCEPT !.fields = <<"reserved">>, !.reserved = FALSE]

----------------------------------------------------------------------------
(* String and array primitives used by the repository *)

\* String.prototype.split(',')
RECURSIVE split(_)
split(s) ==
  IF \E i \in 1..Len(s) : SubSeq(s, i, i) = ","
  THEN LET i == CHOOSE i \in 1..Len(s) :
                  /\ SubSeq(s, i, i) = ","
                  /\ \A j \in 1..(i - 1) : SubSeq(s, j, j) # ","
       IN <<SubSeq(s, 1, i - 1)>> \o split(SubSeq(s, i + 1, Len(s)))
  ELSE <<s>>

\* Array.prototype.join(',')
RECURSIVE join(_)
join(list) ==
  IF list = <<>> THEN ""
  ELSE IF Len(list) = 1 THEN list[1]
  ELSE list[1] \o "," \o join(Tail(list))

\* Array.prototype.indexOf, 0-based, -1 when absent
indexOf(list, key) ==
  IF \E i \in DOMAIN list : list[i] = key
  THEN (CHOOSE i \in DOMAIN list :
          list[i] = key /\ \A j \in 1..(i - 1) : list[j] # key) - 1
  ELSE -1

\* Array.prototype.splice(index, 1), 0-based index
splice1(list, index) ==
  SubSeq(list, 1, index) \o SubSeq(list, index + 2, Len(list))

HexDigit(d) == SubSeq("0123456789abcdef", d + 1, d + 1)

\* Number.prototype.toString(16) of a natural number
RECURSIVE toString16(_)
toString16(n) ==
  IF n < 16 THEN HexDigit(n)
  ELSE toString16(n \div 16) \o HexDigit(n % 16)

\* String.prototype.padStart(2, '0')
padStart2(s) == IF Len(s) >= 2 THEN s ELSE "0" \o s

\* getUtxoKey, lines 129-131
getUtxoKey(txid, vout) == txid \o padStart2(toString16(vout))

\* every key string a read or a delete is made for
Keys ==
  Addresses \cup PublicKeys \cup TemporaryIds \cup FinalIds
    \cup {getUtxoKey(t, v) : t \in Txids, v \in Vouts}
    \cup BucketTags \cup {locationKey}

----------------------------------------------------------------------------
(* JSON *)

Quote(s) == "\"" \o s \o "\""

\* the text of one property, "name":value
FieldText(o, f) ==
  Quote(f) \o ":" \o
    CASE f = "txid" -> Quote(o.txid)
      [] f = "vout" -> ToString(o.vout)
      [] f = "amount" -> ToString(o.amount)
      [] f = "reserved" -> (IF o.reserved THEN "true" ELSE "false")
      [] f = "state" -> Quote(o.state)
      [] f = "temporaryContractId" -> Quote(o.temporaryContractId)
      [] f = "id" -> Quote(o.id)

\* JSON.stringify leaving out the properties that are false
JSONstringify_OmitFalse(o) ==
  IF o.kind = "null" THEN "null"
  ELSE LET kept == SelectSeq(o.fields,
                             LAMBDA f : ~(f = "reserved" /\ ~o.reserved))
       IN "{" \o join([i \in DOMAIN kept |-> FieldText(o, kept[i])]) \o "}"

\* JSON.stringify
JSONstringify(o) ==
  IF o.kind = "null" THEN "null"
  ELSE "{" \o join([i \in DOMAIN o.fields |-> FieldText(o, o.fields[i])])
           \o "}"

\* the objects whose JSON text the repository can come to hold
JsonObjects ==
  LET given == UtxoInputs \cup ContractInputs
  IN given \cup {SpreadUnreserved(o) : o \in given}

Char(s, i) == IF i >= 1 /\ i <= Len(s) THEN SubSeq(s, i, i) ELSE ""

Digits == "0123456789"
IsDigit(c) == \E i \in 1..10 : SubSeq(Digits, i, i) = c
DigitValue(c) == (CHOOSE i \in 1..10 : SubSeq(Digits, i, i) = c) - 1

RECURSIVE ToNumber(_)
ToNumber(s) ==
  IF Len(s) = 0 THEN 0
  ELSE 10 * ToNumber(SubSeq(s, 1, Len(s) - 1))
         + DigitValue(SubSeq(s, Len(s), Len(s)))

\* the place of the double quote that closes a string, looked for from i
\* on; 0 when there is none
RECURSIVE EndOfString(_, _)
EndOfString(s, i) ==
  IF i > Len(s) THEN 0
  ELSE IF Char(s, i) = "\"" THEN i
  ELSE EndOfString(s, i + 1)

\* the first place from i on that holds no digit
RECURSIVE EndOfDigits(_, _)
EndOfDigits(s, i) ==
  IF IsDigit(Char(s, i)) THEN EndOfDigits(s, i + 1) ELSE i

NoValue ==
  [ok |-> FALSE, type |-> "", str |-> "", num |-> 0, bool |-> FALSE,
   next |-> 0]

\* the JSON string, number or boolean that starts at place i of a text,
\* and the place after it
ParseValue(s, i) ==
  IF Char(s, i) = "\""
  THEN LET e == EndOfString(s, i + 1)
       IN IF e = 0 THEN NoValue
          ELSE [NoValue EXCEPT !.ok = TRUE, !.type = "string",
                               !.str = SubSeq(s, i + 1, e - 1),
                               !.next = e + 1]
  ELSE IF IsDigit(Char(s, i))
  THEN LET e == EndOfDigits(s, i)
       IN IF Char(s, i) = "0" /\ e > i + 1 THEN NoValue
          ELSE [NoValue EXCEPT !.ok = TRUE, !.type = "number",
                               !.num = ToNumber(SubSeq(s, i, e - 1)),
                               !.next = e]
  ELSE IF i + 3 <= Len(s) /\ SubSeq(s, i, i + 3) = "true"
  THEN [NoValue EXCEPT !.ok = TRUE, !.type = "boolean", !.bool = TRUE,
                       !.next = i + 4]
  ELSE IF i + 4 <= Len(s) /\ SubSeq(s, i, i + 4) = "false"
  THEN [NoValue EXCEPT !.ok = TRUE, !.type = "boolean", !.bool = FALSE,
                       !.next = i + 5]
  ELSE NoValue

\* the properties a record of the model can hold and the types of their
\* values
FieldType(f) ==
  CASE f \in {"txid", "state", "temporaryContractId", "id"} -> "string"
    [] f \in {"vout", "amount"} -> "number"
    [] f = "reserved" -> "boolean"
    [] OTHER -> ""

\* o[f] = v: a new property is added last
SetField(o, f, v) ==
  LET o1 == [o EXCEPT !.fields = IF f \in Range(@) THEN @ ELSE Append(@, f)]
  IN CASE v.type = "string" -> [o1 EXCEPT ![f] = v.str]
       [] v.type = "number" -> [o1 EXCEPT ![f] = v.num]
       [] v.type = "boolean" -> [o1 EXCEPT ![f] = v.bool]

\* the properties of an object text from place i on, o holding the
\* properties read so far
RECURSIVE ParseMembers(_, _, _)
ParseMembers(s, i, o) ==
  LET name == ParseValue(s, i)
      v == ParseValue(s, name.next + 1)
  IN IF ~name.ok \/ name.type # "string" \/ Char(s, name.next) # ":"
     THEN [ok |-> FALSE, value |-> null]
     ELSE IF ~v.ok \/ v.type # FieldType(name.str)
     THEN [ok |-> FALSE, value |-> null]
     ELSE IF Char(s, v.next) = ","
     THEN ParseMembers(s, v.next + 1, SetField(o, name.str, v))
     ELSE IF Char(s, v.next) = "}" /\ v.next = Len(s)
     THEN [ok |-> TRUE, value |-> SetField(o, name.str, v)]
     ELSE [ok |-> FALSE, value |-> null]

\* JSON.parse of a text: null, or an object of strings, numbers and
\* booleans; anything else is a SyntaxError here, the repository storing no
\* other JSON text
JSONparseText(text) ==
  IF text = "null" THEN [ok |-> TRUE, value |-> null]
  ELSE IF text = "{}" THEN [ok |-> TRUE, value |-> Blank]
  ELSE IF Char(text, 1) = "{" THEN ParseMembers(text, 2, Blank)
  ELSE [ok |-> FALSE, value |-> null]

\* the parses of the JSON texts the repository can come to hold
JsonParsed ==
  [text \in {JSONstringify(o) : o \in JsonObjects} |-> JSONparseText(text)]

\* JSON.parse of a string: the value, or a SyntaxError
JSONparse(text) ==
  IF text \in DOMAIN JsonParsed THEN JsonParsed[text]
  ELSE JSONparseText(text)

----------------------------------------------------------------------------
(* window.localStorage *)

EmptyDb == [k \in {} |-> ""]

\* string | null: a string is <<s>>, null is <<>>
None == <<>>
Some(s) == <<s>>

getItem(d, key) == IF key \in DOMAIN d THEN Some(d[key]) ELSE None

setItem(d, key, value) ==
  [k \in DOMAIN d \cup {key} |-> IF k = key THEN value ELSE d[k]]

removeItem(d, key) == [k \in DOMAIN d \ {key} |-> d[k]]

----------------------------------------------------------------------------
(* Settled promises *)

Resolved(v) == [ok |-> TRUE, error |-> "", value |-> v]
Rejected(e) == [ok |-> FALSE, error |-> e, value |-> <<>>]
void == <<>>

NotFound == "NotFound"
SyntaxError == "SyntaxError"
TypeError == "TypeError"

----------------------------------------------------------------------------
(* Private helpers of LocalRepository *)

\* getBucketKeys, lines 133-138
getBucketKeys(d, bucketTag) ==
  LET res == getItem(d, bucketTag)
  IN IF res # None THEN split(res[1]) ELSE <<>>

\* upsertWrite with the membership test of line 149 dropped
upsertWrite_AlwaysPush(d, keyList, key, value, bucketTag) ==
  setItem(setItem(d, bucketTag, join(Append(keyList, key))), key, value)

\* upsertWrite with the value written for new members only
upsertWrite_KeepOldValue(d, keyList, key, value, bucketTag) ==
  IF indexOf(keyList, key) = -1
  THEN setItem(setItem(d, bucketTag, join(Append(keyList, key))), key, value)
  ELSE d

\* upsertInBucket after its await, lines 147-155: keyList is the list read
\* at line 145
upsertWrite(d, keyList, key, value, bucketTag) ==
  LET index == indexOf(keyList, key)
      d1 == IF index = -1
            THEN setItem(d, bucketTag, join(Append(keyList, key)))
            ELSE d
  IN setItem(d1, key, value)

\* upsertInBucket, lines 140-156
upsertInBucket(d, key, value, bucketTag) ==
  upsertWrite(d, getBucketKeys(d, bucketTag), key, value, bucketTag)

\* upsertValueInBucket, lines 158-164.  The promise of upsertInBucket is
\* dropped at line 163; its continuation is queued when it awaits
\* getBucketKeys, ahead of the continuation of whoever awaits this call, so
\* the writes are in place when an awaiting caller resumes
upsertValueInBucket(d, key, value, bucketTag) ==
  upsertInBucket(d, key, JSONstringify(value), bucketTag)

\* deleteWrite with the removal of the value, line 180, dropped
deleteWrite_KeepValue(d, keyList, key, bucketTag) ==
  LET index == indexOf(keyList, key)
      rest == splice1(keyList, index)
  IN IF index = -1 THEN d
     ELSE IF Len(rest) = 0 THEN removeItem(d, bucketTag)
     ELSE setItem(d, bucketTag, join(rest))

\* deleteWrite with the emptiness test of line 175 dropped
deleteWrite_StoreEmptyList(d, keyList, key, bucketTag) ==
  LET index == indexOf(keyList, key)
  IN IF index = -1 THEN d
     ELSE removeItem(setItem(d, bucketTag, join(splice1(keyList, index))),
                     key)

\* deleteWrite with the return of lines 169-171 dropped: splice(-1, 1)
\* takes the last member off
deleteWrite_NoAbsentTest(d, keyList, key, bucketTag) ==
  LET index == indexOf(keyList, key)
      rest == IF index = -1
              THEN SubSeq(keyList, 1, Len(keyList) - 1)
              ELSE splice1(keyList, index)
      d1 == IF Len(rest) = 0
            THEN removeItem(d, bucketTag)
            ELSE setItem(d, bucketTag, join(rest))
  IN removeItem(d1, key)

\* deleteInBucket after its await, lines 168-181
deleteWrite(d, keyList, key, bucketTag) ==
  LET index == indexOf(keyList, key)
      rest == splice1(keyList, index)
      d1 == IF Len(rest) = 0
            THEN removeItem(d, bucketTag)
            ELSE setItem(d, bucketTag, join(rest))
  IN IF index = -1 THEN d ELSE removeItem(d1, key)

\* deleteInBucket, lines 166-182
deleteInBucket(d, key, bucketTag) ==
  deleteWrite(d, getBucketKeys(d, bucketTag), key, bucketTag)

\* a canonical array index: JavaScript lists such property names first, in
\* ascending numeric order
IsArrayIndex(s) ==
  /\ Len(s) >= 1
  /\ \A i \in 1..Len(s) : IsDigit(SubSeq(s, i, i))
  /\ (Len(s) = 1 \/ SubSeq(s, 1, 1) # "0")

RECURSIVE Ascending(_)
Ascending(S) ==
  IF S = {} THEN <<>>
  ELSE LET m == CHOOSE x \in S : \A y \in S : ToNumber(x) <= ToNumber(y)
       IN <<m>> \o Ascending(S \ {m})

\* first occurrences of the names of a list that are not array indices
RECURSIVE FirstOccurrences(_, _)
FirstOccurrences(list, seen) ==
  IF list = <<>> THEN <<>>
  ELSE IF Head(list) \in seen \/ IsArrayIndex(Head(list))
  THEN FirstOccurrences(Tail(list), seen)
  ELSE <<Head(list)>> \o FirstOccurrences(Tail(list), seen \cup {Head(list)})

\* the property names of the object built at lines 188-193, in the order
\* for-in visits them
ownKeys(keyList) ==
  Ascending({k \in Range(keyList) : IsArrayIndex(k)})
    \o FirstOccurrences(keyList, {})

\* getAllKeyValuesInBucket, lines 184-195, as the list of [key, value]
\* properties of the returned object
getAllKeyValuesInBucket(d, bucketTag) ==
  LET names == ownKeys(getBucketKeys(d, bucketTag))
  IN [i \in DOMAIN names |-> <<names[i], getItem(d, names[i])>>]

\* getAllValuesInBucket, lines 197-205
getAllValuesInBucket(d, bucketTag) ==
  LET keyValues == getAllKeyValuesInBucket(d, bucketTag)
  IN [i \in DOMAIN keyValues |-> keyValues[i][2]]

\* JSON.parse(x) for x : string | null; null is parsed as the text "null"
parseItem(x) == IF x = None THEN JSONparse("null") ELSE JSONparse(x[1])

\* getAllValuesInBucketOfType, lines 207-211
getAllValuesInBucketOfType(d, bucketTag) ==
  LET values == getAllValuesInBucket(d, bucketTag)
  IN IF \E i \in DOMAIN values : ~parseItem(values[i]).ok
     THEN Rejected(SyntaxError)
     ELSE Resolved([i \in DOMAIN values |-> parseItem(values[i]).value])

\* getAllKeysInBucket, lines 213-221
getAllKeysInBucket(d, bucketTag) ==
  LET keyValues == getAllKeyValuesInBucket(d, bucketTag)
  IN Resolved([i \in DOMAIN keyValues |-> keyValues[i][1]])

\* getValue, lines 223-230
getValue(d, key) ==
  LET res == getItem(d, key)
  IN IF res # None THEN Resolved(res[1]) ELSE Rejected(NotFound)

\* getValueOfType, lines 232-235
getValueOfType(d, key) ==
  LET str == getValue(d, key)
  IN IF ~str.ok THEN str
     ELSE IF JSONparse(str.value).ok
     THEN Resolved(JSONparse(str.value).value)
     ELSE Rejected(SyntaxError)

\* a ContractQuery: no query at all, or { states } with states an array
\* (given as the set of its elements) or undefined
NoQuery == [given |-> FALSE, hasStates |-> FALSE, states |-> {}]
QueryNoStates == [given |-> TRUE, hasStates |-> FALSE, states |-> {}]
QueryStates(S) == [given |-> TRUE, hasStates |-> TRUE, states |-> S]
Queries ==
  {NoQuery, QueryNoStates} \cup {QueryStates(S) : S \in SUBSET ContractStates}

\* contract.state of an object: the state, or undefined (no state matches)
StateMatches(states, x) == HasField(x, "state") /\ x.state \in states

\* hasOneOfState taking an empty array of states for no filter
hasOneOfState_EmptyMeansAll(query, contract) ==
  \/ ~query.hasStates
  \/ query.states = {}
  \/ StateMatches(query.states, contract)

\* hasOneOfState, lines 241-246; reading .state of null throws
hasOneOfState(query, contract) ==
  ~query.hasStates \/ StateMatches(query.states, contract)

hasOneOfStateThrows(query, contract) ==
  query.hasStates /\ contract.kind = "null"

----------------------------------------------------------------------------
(* The facade: each operation gives the store it leaves and the settled    *)
(* result of its promise                                                   *)

Outcome(d, res) == [db |-> d, res |-> res]

\* lines 29-31
saveLocation(d, location) ==
  Outcome(setItem(d, locationKey, location), Resolved(void))

\* lines 32-34
getLocation(d) == Outcome(d, Resolved(getItem(d, locationKey)))

\* lines 36-38
upsertAddress(d, address, privkey) ==
  Outcome(upsertInBucket(d, address, privkey, addressBucketTag),
          Resolved(void))

\* lines 40-42
deleteAddress(d, address) ==
  Outcome(deleteInBucket(d, address, addressBucketTag), Resolved(void))

\* lines 44-46
getAddresses(d) == Outcome(d, getAllKeysInBucket(d, addressBucketTag))

\* lines 48-50
getPrivKeyForAddress(d, address) == Outcome(d, getValue(d, address))

\* lines 52-54
upsertKeyPair(d, publicKey, privkey) ==
  Outcome(upsertInBucket(d, publicKey, privkey, keyPairBucketTag),
          Resolved(void))

\* lines 56-58
getPrivKeyForPubkey(d, publicKey) == Outcome(d, getValue(d, publicKey))

\* lines 60-63
upsertUtxo(d, utxo) ==
  LET key == getUtxoKey(utxo.txid, utxo.vout)
  IN Outcome(upsertInBucket(d, key, JSONstringify(utxo), utxoBucketTag),
             Resolved(void))

\* lines 65-68
deleteUtxo(d, utxo) ==
  LET key == getUtxoKey(utxo.txid, utxo.vout)
  IN Outcome(deleteInBucket(d, key, utxoBucketTag), Resolved(void))

\* lines 70-72
getUtxos(d) == Outcome(d, getAllValuesInBucketOfType(d, utxoBucketTag))

\* unreserveUtxo writing the record back as it was read
unreserveUtxo_KeepFlag(d, txid, vout) ==
  LET key == getUtxoKey(txid, vout)
      utxo == getValueOfType(d, key)
  IN IF ~utxo.ok THEN Outcome(d, utxo)
     ELSE Outcome(upsertValueInBucket(d, key, utxo.value, utxoBucketTag),
                  Resolved(void))

\* lines 74-85
unreserveUtxo(d, txid, vout) ==
  LET key == getUtxoKey(txid, vout)
      utxo == getValueOfType(d, key)
  IN IF ~utxo.ok THEN Outcome(d, utxo)
     ELSE Outcome(upsertValueInBucket(d, key, SpreadUnreserved(utxo.value),
                                      utxoBucketTag),
                  Resolved(void))

\* lines 87-93
createContract(d, contract) ==
  Outcome(upsertValueInBucket(d, getId(contract), contract,
                              contractBucketTag),
          Resolved(void))

\* lines 95-97
getContract(d, contractId) == Outcome(d, getValueOfType(d, contractId))

\* lines 99-107
getContracts(d, query) ==
  LET allValues == getAllValuesInBucketOfType(d, contractBucketTag)
  IN IF ~allValues.ok \/ ~query.given THEN Outcome(d, allValues)
     ELSE IF \E i \in DOMAIN allValues.value :
                hasOneOfStateThrows(query, allValues.value[i])
     THEN Outcome(d, Rejected(TypeError))
     ELSE Outcome(d, Resolved(SelectSeq(allValues.value,
                                        LAMBDA x : hasOneOfState(query, x))))

\* updateContract without the delete of lines 110-112
updateContract_NoDelete(d, contract) ==
  Outcome(upsertValueInBucket(d, getId(contract), contract,
                              contractBucketTag),
          Resolved(void))

\* updateContract with the test of line 110 dropped
updateContract_AlwaysDelete(d, contract) ==
  Outcome(upsertValueInBucket(deleteInBucket(d, contract.temporaryContractId,
                                             contractBucketTag),
                              getId(contract), contract, contractBucketTag),
          Resolved(void))

\* lines 109-118
updateContract(d, contract) ==
  LET d1 == IF contract.state = Accepted
            THEN deleteInBucket(d, contract.temporaryContractId,
                                contractBucketTag)
            ELSE d
  IN Outcome(upsertValueInBucket(d1, getId(contract), contract,
                                 contractBucketTag),
             Resolved(void))

\* lines 120-122
deleteContract(d, contractId) ==
  Outcome(deleteInBucket(d, contractId, contractBucketTag), Resolved(void))

\* lines 124-127
hasContract(d, contractId) ==
  Outcome(d, Resolved(getItem(d, contractId) # None))

----------------------------------------------------------------------------
(* The state machine *)

Init ==
  /\ db = EmptyDb
  /\ ret = [op |-> "new", key |-> "", str |-> "", obj |-> null,
            query |-> NoQuery, res |-> Resolved(void), pre |-> EmptyDb]
  /\ queue = <<>>
  /\ calls = <<>>

\* a call: key is the store key the call addresses, str its string
\* argument, obj its object argument, query its ContractQuery, out what the
\* operation gives on the current store
Call(op, key, str, obj, query, out) ==
  /\ Cardinality(DOMAIN out.db) <= MaxEntries
  /\ db' = out.db
  /\ ret' = [op |-> op, key |-> key, str |-> str, obj |-> obj,
             query |-> query, res |-> out.res, pre |-> db]
  /\ UNCHANGED <<queue, calls>>

SaveLocation ==
  \E l \in Locations :
    Call("saveLocation", locationKey, l, null, NoQuery, saveLocation(db, l))

GetLocation ==
  Call("getLocation", locationKey, "", null, NoQuery, getLocation(db))

UpsertAddress ==
  \E a \in Addresses, v \in PrivKeys :
    Call("upsertAddress", a, v, null, NoQuery, upsertAddress(db, a, v))

DeleteAddress ==
  \E a \in Keys :
    Call("deleteAddress", a, "", null, NoQuery, deleteAddress(db, a))

GetAddresses ==
  Call("getAddresses", addressBucketTag, "", null, NoQuery, getAddresses(db))

GetPrivKeyForAddress ==
  \E a \in Keys :
    Call("getPrivKeyForAddress", a, "", null, NoQuery,
         getPrivKeyForAddress(db, a))

UpsertKeyPair ==
  \E k \in PublicKeys, v \in PrivKeys :
    Call("upsertKeyPair", k, v, null, NoQuery, upsertKeyPair(db, k, v))

GetPrivKeyForPubkey ==
  \E k \in Keys :
    Call("getPrivKeyForPubkey", k, "", null, NoQuery,
         getPrivKeyForPubkey(db, k))

UpsertUtxo ==
  \E u \in UtxoInputs :
    Call("upsertUtxo", getUtxoKey(u.txid, u.vout), "", u, NoQuery,
         upsertUtxo(db, u))

DeleteUtxo ==
  \E u \in UtxoInputs :
    Call("deleteUtxo", getUtxoKey(u.txid, u.vout), "", u, NoQuery,
         deleteUtxo(db, u))

GetUtxos ==
  Call("getUtxos", utxoBucketTag, "", null, NoQuery, getUtxos(db))

UnreserveUtxo ==
  \E t \in Txids, v \in Vouts :
    Call("unreserveUtxo", getUtxoKey(t, v), "",
         [Blank EXCEPT !.fields = <<"txid", "vout">>, !.txid = t, !.vout = v],
         NoQuery, unreserveUtxo(db, t, v))

CreateContract ==
  \E c \in ContractInputs :
    Call("createContract", getId(c), "", c, NoQuery, createContract(db, c))

GetContract ==
  \E id \in Keys :
    Call("getContract", id, "", null, NoQuery, getContract(db, id))

GetContracts ==
  \E q \in Queries :
    Call("getContracts", contractBucketTag, "", null, q, getContracts(db, q))

UpdateContract ==
  \E c \in ContractInputs :
    Call("updateContract", getId(c), "", c, NoQuery, updateContract(db, c))

DeleteContract ==
  \E id \in Keys :
    Call("deleteContract", id, "", null, NoQuery, deleteContract(db, id))

HasContract ==
  \E id \in Keys :
    Call("hasContract", id, "", null, NoQuery, hasContract(db, id))

Next ==
  \/ SaveLocation
  \/ GetLocation
  \/ UpsertAddress
  \/ DeleteAddress
  \/ GetAddresses
  \/ GetPrivKeyForAddress
  \/ UpsertKeyPair
  \/ GetPrivKeyForPubkey
  \/ UpsertUtxo
  \/ DeleteUtxo
  \/ GetUtxos
  \/ UnreserveUtxo
  \/ CreateContract
  \/ GetContract
  \/ GetContracts
  \/ UpdateContract
  \/ DeleteContract
  \/ HasContract

Spec == Init /\ [][Next]_vars

----------------------------------------------------------------------------
(* Addresses that may be any string: the reserved location key and a       *)
(* string of digits included                                               *)

AnyAddresses == Addresses \cup {locationKey, "2"}

UpsertAnyAddress ==
  \E a \in AnyAddresses, p \in PrivKeys :
    Call("upsertAddress", a, p, null, NoQuery, upsertAddress(db, a, p))

DeleteAnyAddress ==
  \E a \in AnyAddresses :
    Call("deleteAddress", a, "", null, NoQuery, deleteAddress(db, a))

NextAnyKey ==
  \/ SaveLocation
  \/ GetLocation
  \/ UpsertAnyAddress
  \/ DeleteAnyAddress
  \/ GetAddresses

SpecAnyKey == Init /\ [][NextAnyKey]_vars

----------------------------------------------------------------------------
(* Outpoints whose transaction ids differ in length and whose output       *)
(* indices take two or three hexadecimal digits                            *)

OutpointTxids == {"a", "a1"}
OutpointVouts == {0, 256}

OutpointInputs ==
  {MkUtxo(t, v, a, r) :
     t \in OutpointTxids, v \in OutpointVouts, a \in Amounts, r \in BOOLEAN}

UpsertOutpoint ==
  \E u \in OutpointInputs :
    Call("upsertUtxo", getUtxoKey(u.txid, u.vout), "", u, NoQuery,
         upsertUtxo(db, u))

DeleteOutpoint ==
  \E u \in OutpointInputs :
    Call("deleteUtxo", getUtxoKey(u.txid, u.vout), "", u, NoQuery,
         deleteUtxo(db, u))

UnreserveOutpoint ==
  \E t \in OutpointTxids, v \in OutpointVouts :
    Call("unreserveUtxo", getUtxoKey(t, v), "",
         [Blank EXCEPT !.fields = <<"txid", "vout">>, !.txid = t, !.vout = v],
         NoQuery, unreserveUtxo(db, t, v))

NextOutpoints ==
  \/ UpsertOutpoint
  \/ DeleteOutpoint
  \/ UnreserveOutpoint
  \/ GetUtxos

SpecOutpoints == Init /\ [][NextOutpoints]_vars

----------------------------------------------------------------------------
(* Calls that are not awaited.  An async function runs up to its first     *)
(* await when it is called; what follows the await is a job of the promise *)
(* job queue, which runs the jobs one at a time in the order they were     *)
(* queued.  Awaiting a settled promise queues the continuation at once;    *)
(* an async function that returns a promise settles its own promise two    *)
(* jobs later.                                                             *)

\* calls whose promises the caller holds together
MaxCalls == 2

\* a job: the continuation of upsertInBucket or deleteInBucket with the
\* list it read before its await, or a promise job that, after ticks more
\* jobs, lets whoever awaits (next) go on: the caller of the facade,
\* updateContract at line 113 or unreserveUtxo at line 77
Job(kind, call, keyList, key, value, bucketTag, ticks, next, res) ==
  [kind |-> kind, call |-> call, keyList |-> keyList, key |-> key,
   value |-> value, bucketTag |-> bucketTag, ticks |-> ticks, next |-> next,
   res |-> res]

PromiseJob(call, ticks, next, res, value) ==
  Job("promise", call, <<>>, "", value, "", ticks, next, res)

\* upsertInBucket up to its await, line 145: getBucketKeys has read the
\* list, lines 147-155 are queued
upsertInBucketCall(d, call, key, value, bucketTag, next) ==
  <<Job("upsertInBucket", call, getBucketKeys(d, bucketTag), key, value,
        bucketTag, 0, next, Resolved(void))>>

\* return Promise.resolve() at line 155 or 181
returnPromise(job) ==
  IF job.next = "dropped" THEN <<>>
  ELSE <<PromiseJob(job.call, 2, job.next, Resolved(void), "")>>

\* deleteInBucket up to its await, line 167
deleteInBucketCall(d, call, key, bucketTag, next) ==
  <<Job("deleteInBucket", call, getBucketKeys(d, bucketTag), key, "",
        bucketTag, 0, next, Resolved(void))>>

\* upsertValueInBucket, lines 158-164: upsertInBucket is started and its
\* promise dropped, and the promise of upsertValueInBucket is fulfilled
upsertValueInBucketCall(d, call, key, value, bucketTag) ==
  upsertInBucketCall(d, call, key, JSONstringify(value), bucketTag,
                     "dropped")

\* the facade calls up to their first await, the caller awaiting the
\* promise it is given
upsertAddressCall(d, call, address, privkey) ==
  upsertInBucketCall(d, call, address, privkey, addressBucketTag, "caller")

deleteAddressCall(d, call, address) ==
  deleteInBucketCall(d, call, address, addressBucketTag, "caller")

upsertUtxoCall(d, call, utxo) ==
  upsertInBucketCall(d, call, getUtxoKey(utxo.txid, utxo.vout),
                     JSONstringify(utxo), utxoBucketTag, "caller")

\* unreserveUtxo, line 76: getValue has read the record; return
\* Promise.resolve(res) at line 226 and the return of getValueOfType take
\* three jobs, the throw of line 229 passes through two awaits
unreserveUtxoCall(d, call, txid, vout) ==
  LET str == getValue(d, getUtxoKey(txid, vout))
  IN IF str.ok
     THEN <<PromiseJob(call, 3, "unreserveUtxo", Resolved(void), str.value)>>
     ELSE <<PromiseJob(call, 2, "caller", str, "")>>

\* unreserveUtxo from line 77 on, str being the text read at line 76
unreserveUtxoResume(d, call, key, str) ==
  LET utxo == JSONparse(str)
  IN IF ~utxo.ok
     THEN <<PromiseJob(call, 0, "caller", Rejected(SyntaxError), "")>>
     ELSE upsertValueInBucketCall(d, call, key, SpreadUnreserved(utxo.value),
                                  utxoBucketTag)
            \o <<PromiseJob(call, 2, "caller", Resolved(void), "")>>

\* createContract, lines 87-93: the promise of upsertValueInBucket is
\* already fulfilled when the caller awaits it
createContractCall(d, call, contract) ==
  upsertValueInBucketCall(d, call, getId(contract), contract,
                          contractBucketTag)
    \o <<PromiseJob(call, 0, "caller", Resolved(void), "")>>

\* updateContract from line 113 on
updateContractResume(d, call, contract) ==
  upsertValueInBucketCall(d, call, getId(contract), contract,
                          contractBucketTag)
    \o <<PromiseJob(call, 2, "caller", Resolved(void), "")>>

\* updateContract with the upsert started before the delete
updateContractCall_UpsertFirst(d, call, contract) ==
  IF contract.state = Accepted
  THEN upsertValueInBucketCall(d, call, getId(contract), contract,
                               contractBucketTag)
         \o deleteInBucketCall(d, call, contract.temporaryContractId,
                               contractBucketTag, "caller")
  ELSE updateContractResume(d, call, contract)

\* updateContract, lines 109-112
updateContractCall(d, call, contract) ==
  IF contract.state = Accepted
  THEN deleteInBucketCall(d, call, contract.temporaryContractId,
                          contractBucketTag, "updateContract")
  ELSE updateContractResume(d, call, contract)

Settled == \A i \in DOMAIN calls : calls[i].settled

\* the place of the next call among the promises the caller holds
NextCall == IF Settled THEN 1 ELSE Len(calls) + 1

\* no facade call is being made or has just settled
Busy ==
  [op |-> "", key |-> "", str |-> "", obj |-> null, query |-> NoQuery,
   res |-> Resolved(void), pre |-> EmptyDb]

InitJobs ==
  /\ db = EmptyDb
  /\ ret = Busy
  /\ queue = <<>>
  /\ calls = <<>>

\* a facade call is made: it runs up to its first await and hands its
\* promise to the caller, who awaits it.  fulfilled: the promise is
\* fulfilled; settled: the caller has gone on with its outcome.  A call is
\* made only while the store has room, within MaxEntries, for the bucket
\* tag and the value that every call in flight may add
Start(op, key, str, obj, jobs, fulfilled) ==
  LET call == [op |-> op, key |-> key, str |-> str, obj |-> obj,
               pre |-> db, fulfilled |-> fulfilled, settled |-> FALSE,
               res |-> Resolved(void)]
      inFlight == Cardinality({i \in DOMAIN calls : ~calls[i].settled})
  IN /\ Settled \/ Len(calls) < MaxCalls
     /\ Cardinality(DOMAIN db) + 2 * (inFlight + 1) <= MaxEntries
     /\ calls' = IF Settled THEN <<call>> ELSE Append(calls, call)
     /\ queue' = queue \o jobs
     /\ ret' = Busy
     /\ UNCHANGED db

StartUpsertAddress ==
  \E a \in Addresses, p \in PrivKeys :
    Start("upsertAddress", a, p, null, upsertAddressCall(db, NextCall, a, p),
          FALSE)

StartDeleteAddress ==
  \E a \in Addresses :
    Start("deleteAddress", a, "", null, deleteAddressCall(db, NextCall, a),
          FALSE)

StartUpsertUtxo ==
  \E u \in UtxoInputs :
    Start("upsertUtxo", getUtxoKey(u.txid, u.vout), "", u,
          upsertUtxoCall(db, NextCall, u), FALSE)

StartUnreserveUtxo ==
  \E t \in Txids, v \in Vouts :
    Start("unreserveUtxo", getUtxoKey(t, v), "", null,
          unreserveUtxoCall(db, NextCall, t, v), FALSE)

\* the promise createContract returns is the one upsertValueInBucket has
\* fulfilled by returning
StartCreateContract ==
  \E c \in ContractInputs :
    Start("createContract", getId(c), "", c,
          createContractCall(db, NextCall, c), TRUE)

StartUpdateContract ==
  \E c \in ContractInputs :
    Start("updateContract", getId(c), "", c,
          updateContractCall(db, NextCall, c), FALSE)

\* the first job of the queue is taken off and run
Running(kind) == queue # <<>> /\ Head(queue).kind = kind

\* lines 147-155
RunUpsertInBucket ==
  /\ Running("upsertInBucket")
  /\ LET job == Head(queue)
     IN /\ db' = upsertWrite(db, job.keyList, job.key, job.value,
                             job.bucketTag)
        /\ queue' = Tail(queue) \o returnPromise(job)
  /\ ret' = Busy
  /\ UNCHANGED calls

\* lines 168-181; the return of line 170 settles the promise at once
RunDeleteInBucket ==
  /\ Running("deleteInBucket")
  /\ LET job == Head(queue)
     IN /\ db' = deleteWrite(db, job.keyList, job.key, job.bucketTag)
        /\ queue' = Tail(queue) \o
                      IF indexOf(job.keyList, job.key) = -1
                      THEN <<PromiseJob(job.call, 0, job.next,
                                        Resolved(void), "")>>
                      ELSE returnPromise(job)
  /\ ret' = Busy
  /\ UNCHANGED <<calls>>

\* a promise job that settles the next promise of a chain
RunPromiseJob ==
  /\ Running("promise")
  /\ Head(queue).ticks > 0
  /\ queue' = Append(Tail(queue),
                     [Head(queue) EXCEPT !.ticks = @ - 1])
  /\ ret' = Busy
  /\ UNCHANGED <<db, calls>>

\* updateContract goes on at line 113
ResumeUpdateContract ==
  /\ Running("promise")
  /\ Head(queue).ticks = 0 /\ Head(queue).next = "updateContract"
  /\ LET job == Head(queue)
     IN queue' = Tail(queue) \o
                   updateContractResume(db, job.call, calls[job.call].obj)
  /\ ret' = Busy
  /\ UNCHANGED <<db, calls>>

\* unreserveUtxo goes on at line 77
ResumeUnreserveUtxo ==
  /\ Running("promise")
  /\ Head(queue).ticks = 0 /\ Head(queue).next = "unreserveUtxo"
  /\ LET job == Head(queue)
     IN queue' = Tail(queue) \o
                   unreserveUtxoResume(db, job.call, calls[job.call].key,
                                       job.value)
  /\ ret' = Busy
  /\ UNCHANGED <<db, calls>>

\* the promise of a facade call has settled and the caller that awaits it
\* goes on
ResumeCaller ==
  /\ Running("promise")
  /\ Head(queue).ticks = 0 /\ Head(queue).next = "caller"
  /\ LET job == Head(queue)
         call == calls[job.call]
     IN /\ calls' = [calls EXCEPT ![job.call].settled = TRUE,
                                  ![job.call].fulfilled = job.res.ok,
                                  ![job.call].res = job.res]
        /\ ret' = [op |-> call.op, key |-> call.key, str |-> call.str,
                   obj |-> call.obj, query |-> NoQuery, res |-> job.res,
                   pre |-> call.pre]
  /\ queue' = Tail(queue)
  /\ UNCHANGED db

NextJobs ==
  \/ StartUpsertAddress
  \/ StartDeleteAddress
  \/ StartUpsertUtxo
  \/ StartUnreserveUtxo
  \/ StartCreateContract
  \/ StartUpdateContract
  \/ RunUpsertInBucket
  \/ RunDeleteInBucket
  \/ RunPromiseJob
  \/ ResumeUpdateContract
  \/ ResumeUnreserveUtxo
  \/ ResumeCaller

SpecJobs == InitJobs /\ [][NextJobs]_vars

----------------------------------------------------------------------------
(* Vocabulary of the properties *)

Members(d, bucketTag) == Range(getBucketKeys(d, bucketTag))

NoDuplicates(list) ==
  \A i \in DOMAIN list : \A j \in DOMAIN list : i # j => list[i] # list[j]

Occurrences(list, key) == Cardinality({i \in DOMAIN list : list[i] = key})

\* the calls that upsert ret.key into one bucket and do nothing else
PlainUpserts ==
  {"upsertAddress", "upsertKeyPair", "upsertUtxo", "createContract"}

\* the calls that delete ret.key from one bucket
PlainDeletes == {"deleteAddress", "deleteUtxo", "deleteContract"}

\* the bucket a call works on
BucketOf(op) ==
  CASE op \in {"upsertAddress", "deleteAddress", "getAddresses",
               "getPrivKeyForAddress"} -> addressBucketTag
    [] op \in {"upsertKeyPair", "getPrivKeyForPubkey"} -> keyPairBucketTag
    [] op \in {"upsertUtxo", "deleteUtxo", "getUtxos", "unreserveUtxo"}
         -> utxoBucketTag
    [] OTHER -> contractBucketTag

\* the string a plain upsert stores under ret.key
StoredString(r) ==
  IF r.op \in {"upsertAddress", "upsertKeyPair"} THEN r.str
  ELSE JSONstringify(r.obj)

\* the listing operation of a bucket
Listing(d, bucketTag) ==
  CASE bucketTag = addressBucketTag -> getAddresses(d).res
    [] bucketTag = utxoBucketTag -> getUtxos(d).res
    [] bucketTag = contractBucketTag -> getContracts(d, NoQuery).res
    [] OTHER -> getAllKeysInBucket(d, bucketTag)

\* the single-item read of a bucket
SingleRead(d, bucketTag, key) ==
  CASE bucketTag = addressBucketTag -> getPrivKeyForAddress(d, key).res
    [] bucketTag = keyPairBucketTag -> getPrivKeyForPubkey(d, key).res
    [] bucketTag = contractBucketTag -> getContract(d, key).res
    [] OTHER -> getValueOfType(d, key)

\* what the single-item read gives for the value a plain upsert stored
StoredValue(r) ==
  IF r.op \in {"upsertAddress", "upsertKeyPair"} THEN r.str ELSE r.obj

----------------------------------------------------------------------------
C2_MembersListedOnce ==
  /\ \A tag \in BucketTags : NoDuplicates(getBucketKeys(db, tag))
  /\ getAddresses(db).res.ok /\ NoDuplicates(getAddresses(db).res.value)
  /\ ret.op \in PlainUpserts =>
       LET tag == BucketOf(ret.op)
           list == getBucketKeys(db, tag)
       IN /\ Occurrences(list, ret.key) = 1
          /\ \A k \in Members(ret.pre, tag) : Occurrences(list, k) = 1
          /\ tag = addressBucketTag =>
               \A k \in Members(ret.pre, tag) \cup {ret.key} :
                 Occurrences(getAddresses(db).res.value, k) = 1

\* a second, different key has just been upserted into a bucket
C2_Witness ==
  /\ ret.op = "upsertAddress"
  /\ Members(ret.pre, addressBucketTag) # {}
  /\ ret.key \notin Members(ret.pre, addressBucketTag)
  /\ Len(getAddresses(db).res.value) = 2

(* C3: upserting a key that is already a member replaces the stored value  *)
(* (the single-item read gives the new value) and leaves the member list   *)
(* of the bucket as it was; upserting the same key and value again leaves  *)
(* the store as the first upsert left it.                                  *)
C3_UpsertOverwrites ==
  ret.op \in PlainUpserts =>
    LET tag == BucketOf(ret.op)
    IN /\ SingleRead(db, tag, ret.key) = Resolved(StoredValue(ret))
       /\ ret.key \in Members(ret.pre, tag) =>
            getBucketKeys(db, tag) = getBucketKeys(ret.pre, tag)
       /\ upsertInBucket(db, ret.key, StoredString(ret), tag) = db

\* a member has just been upserted again with a different value
C3_Witness ==
  /\ ret.op = "upsertAddress"
  /\ ret.key \in Members(ret.pre, addressBucketTag)
  /\ getItem(ret.pre, ret.key) # None
  /\ getItem(ret.pre, ret.key) # Some(ret.str)

(* C4: deleting the last member of a bucket removes the bucket tag entry   *)
(* and the listing then gives the empty sequence; a bucket tag entry that  *)
(* is present never holds the empty string and encodes only non-empty      *)
(* member keys.                                                            *)
C4_EmptyBucketHasNoTag ==
  /\ \A tag \in BucketTags :
       getItem(db, tag) # None =>
         /\ getItem(db, tag) # Some("")
         /\ Len(getBucketKeys(db, tag)) >= 1
         /\ \A k \in Members(db, tag) : k # ""
  /\ (ret.op \in PlainDeletes
        /\ getBucketKeys(ret.pre, BucketOf(ret.op)) = <<ret.key>>) =>
       /\ getItem(db, BucketOf(ret.op)) = None
       /\ Listing(db, BucketOf(ret.op)) = Resolved(<<>>)

\* the only member of a bucket has just been deleted
C4_Witness ==
  /\ ret.op = "deleteAddress"
  /\ getBucketKeys(ret.pre, addressBucketTag) = <<ret.key>>

(* C5: after updateContract(c) for an Accepted contract c with temporary   *)
(* id t and final id f, getContract(t) fails with NotFound, t is not a     *)
(* member of the contract bucket and getContract(f) gives c, whether or    *)
(* not a record was stored under t before.                                 *)
C5_IdentifierMigration ==
  (ret.op = "updateContract" /\ ret.obj.state = Accepted) =>
    LET t == ret.obj.temporaryContractId
        f == getId(ret.obj)
    IN /\ getContract(db, t).res = Rejected(NotFound)
       /\ t \notin Members(db, contractBucketTag)
       /\ getContract(db, f).res = Resolved(ret.obj)

\* an Accepted contract has just been moved from its temporary id, under
\* which a record was stored, to its final id
C5_Witness ==
  /\ ret.op = "updateContract"
  /\ ret.obj.state = Accepted
  /\ ret.obj.temporaryContractId \in Members(ret.pre, contractBucketTag)
  /\ getId(ret.obj) \in Members(db, contractBucketTag)

\* the UTXO records with the reserved flag set
ReservedUtxos == {u \in UtxoInputs : u.reserved}

(* C6: unreserveUtxo on a (txid, vout) with no stored UTXO fails with      *)
(* NotFound and leaves the store unchanged; on a stored UTXO whose         *)
(* reserved flag is set, the record read back has reserved = false and the *)
(* other fields unchanged, under the same key, and the member list of the  *)
(* UTXO bucket is unchanged.                                               *)
C6_UnreserveUtxo ==
  ret.op = "unreserveUtxo" =>
    /\ ret.key \notin Members(ret.pre, utxoBucketTag) =>
         /\ ret.res = Rejected(NotFound)
         /\ db = ret.pre
    /\ \A u \in ReservedUtxos :
         (/\ ret.key \in Members(ret.pre, utxoBucketTag)
          /\ getItem(ret.pre, ret.key) = Some(JSONstringify(u))) =>
           /\ ret.res = Resolved(void)
           /\ getValueOfType(db, ret.key)
                = Resolved([u EXCEPT !.reserved = FALSE])
           /\ getBucketKeys(db, utxoBucketTag)
                = getBucketKeys(ret.pre, utxoBucketTag)
           /\ \A k \in DOMAIN ret.pre \ {ret.key} :
                getItem(db, k) = getItem(ret.pre, k)

\* a stored UTXO with the reserved flag set has just been unreserved
C6_Witness ==
  /\ ret.op = "unreserveUtxo"
  /\ ret.res = Resolved(void)
  /\ \E u \in ReservedUtxos : getItem(ret.pre, ret.key) = Some(JSONstringify(u))

\* the contracts stored in the contract bucket: c is stored when its id is
\* a member and the entry under its id is the text of c
StoredContracts(d) ==
  {c \in ContractInputs :
     /\ getId(c) \in Members(d, contractBucketTag)
     /\ getItem(d, getId(c)) = Some(JSONstringify(c))}

\* the states a query accepts
AcceptedBy(query) ==
  IF query.given /\ query.hasStates THEN query.states ELSE ContractStates

(* C7: getContracts(query) gives exactly the stored contracts, one per     *)
(* member of the contract bucket, whose state is among the states of the   *)
(* query, each once, for every set of states including the empty one;      *)
(* without a query it gives every stored contract.                         *)
C7_GetContractsFilters ==
  \A q \in Queries :
    LET res == getContracts(db, q).res
        wanted == {c \in StoredContracts(db) : c.state \in AcceptedBy(q)}
    IN /\ Cardinality(StoredContracts(db))
            = Cardinality(Members(db, contractBucketTag))
       /\ res.ok
       /\ Range(res.value) = wanted
       /\ Len(res.value) = Cardinality(wanted)

\* two contracts in different states are stored and getContracts has just
\* been asked for the Offered ones
C7_Witness ==
  /\ ret.op = "getContracts"
  /\ ret.query = QueryStates({Offered})
  /\ Cardinality(StoredContracts(db)) = 2
  /\ ret.res.ok /\ Len(ret.res.value) = 1

(* C8: hasContract(id) never fails; it gives false for an id that is not a *)
(* member of the contract bucket (no contract was ever created under it,   *)
(* or it was deleted), whatever was done to the other collections and to   *)
(* the location, and true for a member of the contract bucket.             *)
C8_HasContract ==
  \A id \in Keys :
    LET res == hasContract(db, id).res
    IN /\ res.ok
       /\ res.value = (id \in Members(db, contractBucketTag))

(* C9: getPrivKeyForAddress(a) gives the private key most recently         *)
(* upserted for a when a is a member of the address bucket (the key of the *)
(* last call when that call was upsertAddress(a, _), the key it gave       *)
(* before the last call otherwise), fails with NotFound when a is not a    *)
(* member, after any operations on the other collections, and leaves the   *)
(* store unchanged.                                                        *)
C9_PrivKeyForAddress ==
  /\ \A a \in Keys :
       LET res == getPrivKeyForAddress(db, a).res
       IN IF a \in Members(db, addressBucketTag)
          THEN IF ret.op = "upsertAddress" /\ ret.key = a
               THEN res = Resolved(ret.str)
               ELSE res = getPrivKeyForAddress(ret.pre, a).res
          ELSE res = Rejected(NotFound)
  /\ ret.op = "getPrivKeyForAddress" => db = ret.pre

\* the calls that upsert or delete a member of one collection
CollectionWrites == PlainUpserts \cup PlainDeletes

\* everything the reads of one collection give, for every key string
ReadsOf(d, bucketTag) ==
  CASE bucketTag = addressBucketTag ->
         <<getAddresses(d).res,
           [k \in Keys |-> getPrivKeyForAddress(d, k).res]>>
    [] bucketTag = keyPairBucketTag ->
         <<[k \in Keys |-> getPrivKeyForPubkey(d, k).res]>>
    [] bucketTag = utxoBucketTag -> <<getUtxos(d).res>>
    [] OTHER ->
         <<[q \in Queries |-> getContracts(d, q).res],
           [k \in Keys |-> getContract(d, k).res],
           [k \in Keys |-> hasContract(d, k).res]>>

(* C10: an upsert or delete in one collection leaves the member list and   *)
(* every stored member value of each other collection unchanged, for every *)
(* key string, and so changes nothing that the reads of the other          *)
(* collections give (deleteAddress(k) never changes what                   *)
(* getPrivKeyForPubkey, getUtxos, getContracts or hasContract give).       *)
C10_CollectionsIndependent ==
  ret.op \in CollectionWrites =>
    \A tag \in BucketTags \ {BucketOf(ret.op)} :
      /\ getBucketKeys(db, tag) = getBucketKeys(ret.pre, tag)
      /\ \A k \in Members(ret.pre, tag) :
           getItem(db, k) = getItem(ret.pre, k)
      /\ ReadsOf(db, tag) = ReadsOf(ret.pre, tag)

----------------------------------------------------------------------------
(* C11: when two mutations of the address bucket are made without awaiting *)
(* the first, then once both promises have settled the bucket/value        *)
(* pairing holds, and when both are upserts of different addresses both    *)
(* addresses are members, each with the private key it was upserted with.  *)
C11_UnawaitedMutations ==
  (/\ Len(calls) = 2
   /\ Settled
   /\ \A i \in DOMAIN calls : calls[i].op \in {"upsertAddress",
                                               "deleteAddress"})
  => /\ \A k \in Members(db, addressBucketTag) : getItem(db, k) # None
     /\ \A k \in DOMAIN db \ (BucketTags \cup {locationKey}) :
          \E tag \in BucketTags : k \in Members(db, tag)
     /\ (/\ \A i \in DOMAIN calls : calls[i].op = "upsertAddress"
         /\ calls[1].key # calls[2].key)
        => \A i \in DOMAIN calls :
             /\ calls[i].key \in Members(db, addressBucketTag)
             /\ getItem(db, calls[i].key) = Some(calls[i].str)

----------------------------------------------------------------------------
(* C12: after createContract(c), getContract(getId(c)) gives a record      *)
(* equal to c, and after upsertUtxo(u), getUtxos() gives a sequence that   *)
(* holds a record equal to u.                                              *)
C12_RoundTrip ==
  /\ ret.op = "createContract"
       => getContract(db, getId(ret.obj)).res = Resolved(ret.obj)
  /\ ret.op = "upsertUtxo"
       => /\ getUtxos(db).res.ok
          /\ \E i \in DOMAIN getUtxos(db).res.value :
               getUtxos(db).res.value[i] = ret.obj

\* an unreserved UTXO has just been upserted while an accepted contract,
\* read back as it was created, is in the store
C12_Witness ==
  /\ ret.op = "upsertUtxo"
  /\ ~ret.obj.reserved
  /\ \E c \in ContractInputs :
       /\ c.state = Accepted
       /\ getContract(db, getId(c)).res = Resolved(c)

----------------------------------------------------------------------------
(* C13: deleteAddress, deleteUtxo or deleteContract of a key that is not a *)
(* member of the bucket it targets resolves and leaves every entry of the  *)
(* store as it was.                                                        *)
C13_DeleteOfNonMember ==
  (/\ ret.op \in PlainDeletes
   /\ ret.key \notin Members(ret.pre, BucketOf(ret.op)))
  => /\ ret.res = Resolved(void)
     /\ db = ret.pre

\* a key that another bucket holds has just been deleted from a bucket
\* that has members but not this one
C13_Witness ==
  /\ ret.op \in PlainDeletes
  /\ ret.key \notin Members(ret.pre, BucketOf(ret.op))
  /\ Members(ret.pre, BucketOf(ret.op)) # {}
  /\ getItem(ret.pre, ret.key) # None

----------------------------------------------------------------------------
(* C14: getLocation gives the value of the most recent saveLocation, or    *)
(* null when none was made; saveLocation changes no member list and no     *)
(* member value; an upsert or a delete in a bucket, whatever its key,      *)
(* leaves the value that getLocation gives as it was.                      *)
C14_LocationBypassesBuckets ==
  /\ ret.op = "new" => getLocation(db).res = Resolved(None)
  /\ ret.op = "saveLocation"
       => /\ getLocation(db).res = Resolved(Some(ret.str))
          /\ \A tag \in BucketTags :
               /\ getBucketKeys(db, tag) = getBucketKeys(ret.pre, tag)
               /\ \A k \in Members(db, tag) :
                    getItem(db, k) = getItem(ret.pre, k)
  /\ ret.op \in PlainUpserts \cup PlainDeletes \cup {"getAddresses",
                                                     "getLocation"}
       => getLocation(db).res = getLocation(ret.pre).res

----------------------------------------------------------------------------
(* C15: upserting an address that is not in the address bucket appends it  *)
(* to the member list, upserting a member leaves the list as it was,       *)
(* deleting a member leaves the other members in the order they had, and   *)
(* getAddresses gives the addresses in the order of the member list.       *)
C15_InsertionOrder ==
  LET before == getBucketKeys(ret.pre, addressBucketTag)
      after == getBucketKeys(db, addressBucketTag)
  IN /\ ret.op = "upsertAddress"
          => after = IF ret.key \in Range(before) THEN before
                     ELSE Append(before, ret.key)
     /\ ret.op = "deleteAddress"
          => after = SelectSeq(before, LAMBDA k : k # ret.key)
     /\ getAddresses(db).res = Resolved(after)

----------------------------------------------------------------------------
(* C16: while updateContract(c) is the only call in flight, c Accepted     *)
(* with its temporary id t a member of the contract bucket and nothing     *)
(* stored under its final id f when the call was made, the store never     *)
(* holds anything under f, nor f in the member list, unless t has been     *)
(* removed from the member list and from the store.                        *)
MigrationInFlight ==
  /\ Len(calls) = 1
  /\ calls[1].op = "updateContract"
  /\ calls[1].obj.state = Accepted
  /\ calls[1].obj.temporaryContractId
       \in Members(calls[1].pre, contractBucketTag)
  /\ getItem(calls[1].pre, getId(calls[1].obj)) = None

C16_DeleteBeforeUpsert ==
  MigrationInFlight
  => LET t == calls[1].obj.temporaryContractId
         f == getId(calls[1].obj)
     IN (getItem(db, f) # None \/ f \in Members(db, contractBucketTag))
        => (getItem(db, t) = None /\ t \notin Members(db, contractBucketTag))

\* the migration has removed the temporary id and has not yet written the
\* final one
C16_Witness ==
  /\ MigrationInFlight
  /\ ~calls[1].settled
  /\ getItem(db, calls[1].obj.temporaryContractId) = None
  /\ getItem(db, getId(calls[1].obj)) = None

----------------------------------------------------------------------------
(* C17: updateContract(c) for a contract that is not Accepted removes no   *)
(* entry of the store: it stores c under getId(c), adds getId(c) to the    *)
(* contract member list when it is not there, and leaves every other       *)
(* entry, the one under c's temporaryContractId included, as it was.       *)
C17_UpdateDeletesNothing ==
  (ret.op = "updateContract" /\ ret.obj.state # Accepted)
  => LET id == getId(ret.obj)
         before == getBucketKeys(ret.pre, contractBucketTag)
     IN /\ ret.res = Resolved(void)
        /\ DOMAIN ret.pre \subseteq DOMAIN db
        /\ \A k \in DOMAIN db \ {id, contractBucketTag} :
             getItem(db, k) = getItem(ret.pre, k)
        /\ getItem(db, id) = Some(JSONstringify(ret.obj))
        /\ getBucketKeys(db, contractBucketTag) =
             IF id \in Range(before) THEN before ELSE Append(before, id)

\* a signed contract has just been updated under its final id while a
\* record is stored under its temporary id
C17_Witness ==
  /\ ret.op = "updateContract"
  /\ ret.obj.state = Signed
  /\ ret.obj.temporaryContractId \in Members(ret.pre, contractBucketTag)
  /\ getId(ret.obj) # ret.obj.temporaryContractId
  /\ getItem(db, ret.obj.temporaryContractId) # None

----------------------------------------------------------------------------
(* C18: whenever the promise that createContract, updateContract or        *)
(* unreserveUtxo returned is fulfilled, the continuation of upsertInBucket *)
(* that writes the member list and the value for that call has run and the *)
(* value is in the store; and when a caller that awaited createContract(c) *)
(* goes on, hasContract(getId(c)) gives true and getContract(getId(c))     *)
(* finds the record.                                                       *)
C18_WritesBeforeResolve ==
  /\ \A i \in DOMAIN calls :
       (/\ calls[i].op \in {"createContract", "updateContract",
                            "unreserveUtxo"}
        /\ calls[i].fulfilled)
       => /\ \A j \in DOMAIN queue :
               ~(queue[j].kind = "upsertInBucket" /\ queue[j].call = i)
          /\ getItem(db, calls[i].key) # None
  /\ ret.op = "createContract"
       => /\ hasContract(db, ret.key).res = Resolved(TRUE)
          /\ getContract(db, ret.key).res.ok

----------------------------------------------------------------------------
(* C19: the UTXO key of a call differs from the key of every stored UTXO   *)
(* with another (txid, vout); upsertUtxo and deleteUtxo of one UTXO leave  *)
(* every stored UTXO with another (txid, vout) in the listing; and for one *)
(* (txid, vout) the three operations meet: deleteUtxo removes what         *)
(* upsertUtxo stored and unreserveUtxo finds it.                           *)
SameOutpoint(u, v) == u.txid = v.txid /\ u.vout = v.vout

Stored(d) == Range(getUtxos(d).res.value)

C19_UtxoKeyInjective ==
  /\ getUtxos(db).res.ok
  /\ ret.op \in {"upsertUtxo", "deleteUtxo", "unreserveUtxo"}
       => \A u \in Stored(ret.pre) :
            ~SameOutpoint(u, ret.obj)
              => getUtxoKey(u.txid, u.vout)
                   # getUtxoKey(ret.obj.txid, ret.obj.vout)
  /\ ret.op \in {"upsertUtxo", "deleteUtxo"}
       => \A u \in Stored(ret.pre) :
            ~SameOutpoint(u, ret.obj) => u \in Stored(db)
  /\ ret.op = "deleteUtxo"
       => \A u \in Stored(db) : ~SameOutpoint(u, ret.obj)
  /\ ret.op = "unreserveUtxo"
       => ((\E u \in Stored(ret.pre) : SameOutpoint(u, ret.obj))
             => ret.res.ok)

====
